---- MODULE Spec2Model ----
(***************************************************************************)
(* Model of beelay-core's event ingress (src/beelay/beelay-core/src/       *)
(* event.rs): the constructors of Event, the CommandId each of them mints  *)
(* and the Command it wraps.                                               *)
(*                                                                         *)
(* Every constructor is an operator from the generator state and its       *)
(* arguments to the generator state it leaves and the value it returns.    *)
(* The callers are concurrent: a call takes effect at its (atomic) call of *)
(* CommandId::new and its result stays in the caller's frame until the     *)
(* caller takes it (Return).                                               *)
(***************************************************************************)
EXTENDS Naturals, Sequences, FiniteSets, Bags, TLC

\* ------------------------------------------------------------------ bounds
\* The generator is capped: no call is started that would mint past MaxMints.
MaxMints == 3
\* Longest Vec<Commit>, Vec<KeyhiveEntityId> and Vec<u8> argument.
MaxLen == 2

\* ------------------------------------------------------------------ inputs
Callers == {1, 2}

DocumentIds == {"d1", "d2"}
Commits == {"c1", "c2"}
CommitBundles == {"b1", "b2"}
KeyhiveEntityIds == {"k1", "k2"}
MemberAccesses == {"Read", "Write"}
StreamIds == {"s1", "s2"}
StreamDirections == {"Connecting", "Accepting"}
EndpointIds == {"e1", "e2"}
Audiences == {"aud1", "aud2"}
OutboundRequestIds == {"r1", "r2"}
IoResults == {"io1", "io2"}
AddMemberToGroups == {"add1", "add2"}
RemoveMemberFromGroups == {"rem1", "rem2"}
Nicknames == {"n1", "n2"}
Bytes == {0, 1}

\* Vec<T> of at most MaxLen elements.
Vecs(T) == UNION {[1..n -> T] : n \in 0..MaxLen}

\* Option<String>: None is the empty tuple, Some(s) the tuple of s.
None == <<>>
Some(s) == <<s>>
OptionStrings == {None, Some("a")}

\* SignedMessage and EndpointResponse are tuple structs around one field (.0).
SignedMessages == {<<"m1">>, <<"m2">>}
EndpointResponses == {<<"p1">>, <<"p2">>}

\* ------------------------------------------------------------------ values
\* enum EventInner
IoComplete(result) == [tag |-> "IoComplete", result |-> result]
BeginCommand(command_id, command) ==
    [tag |-> "BeginCommand", command_id |-> command_id, command |-> command]
StreamMessage(stream_id, message) ==
    [tag |-> "StreamMessage", stream_id |-> stream_id, message |-> message]
Tick == [tag |-> "Tick"]

\* What a constructor hands back: an Event, or a (CommandId, Event) pair.
Bare(event) == [event |-> event]
Pair(command_id, event) == [command_id |-> command_id, event |-> event]

\* Command::Keyhive(sub)
Keyhive(sub) == [variant |-> "Keyhive", sub |-> sub]

\* CommandId::new(): the generator hands out the id after the last one.
CommandIdNew(g) == [gen |-> g + 1, id |-> g + 1]

\* ------------------------------------------------------------ constructors
\* Each takes the generator state g first and yields [gen, ret]: the generator
\* state after the call and the value returned. Fields of a tuple variant are
\* f0, f1, f2 in their order.

io_complete(g, result) ==
    [gen |-> g, ret |-> Bare(IoComplete(result))]

\* handle_request with a second CommandId::new() for the id it returns.
handle_request_mints_twice(g, request, receive_audience) ==
    LET n == CommandIdNew(g)
        m == CommandIdNew(n.gen)
        event == BeginCommand(n.id,
                     [variant |-> "HandleRequest", request |-> request[1],
                      receive_audience |-> receive_audience])
    IN  [gen |-> m.gen, ret |-> Pair(m.id, event)]

handle_request(g, request, receive_audience) ==
    LET n == CommandIdNew(g)
        command_id == n.id
        event == BeginCommand(command_id,
                     [variant |-> "HandleRequest", request |-> request[1],
                      receive_audience |-> receive_audience])
    IN  [gen |-> n.gen, ret |-> Pair(command_id, event)]

handle_response(g, request_id, response) ==
    LET n == CommandIdNew(g)
        command_id == n.id
    IN  [gen |-> n.gen,
         ret |-> Pair(command_id,
                     BeginCommand(command_id,
                         [variant |-> "HandleResponse", request_id |-> request_id,
                          response |-> response[1]]))]

\* add_commits that gives up on an empty list of commits.
add_commits_rejects_empty(g, root_id, commits) ==
    LET n == CommandIdNew(g)
        command_id == n.id
    IN  IF commits = <<>>
        THEN [gen |-> g, ret |-> [error |-> "no commits"]]
        ELSE [gen |-> n.gen,
              ret |-> Pair(command_id,
                          BeginCommand(command_id,
                              [variant |-> "AddCommits", doc_id |-> root_id,
                               commits |-> commits]))]

\* add_commits that hands the commits over last first.
add_commits_reversed(g, root_id, commits) ==
    LET n == CommandIdNew(g)
        command_id == n.id
    IN  [gen |-> n.gen,
         ret |-> Pair(command_id,
                     BeginCommand(command_id,
                         [variant |-> "AddCommits", doc_id |-> root_id,
                          commits |-> [i \in 1..Len(commits) |->
                                          commits[Len(commits) + 1 - i]]]))]

add_commits(g, root_id, commits) ==
    LET n == CommandIdNew(g)
        command_id == n.id
    IN  [gen |-> n.gen,
         ret |-> Pair(command_id,
                     BeginCommand(command_id,
                         [variant |-> "AddCommits", doc_id |-> root_id,
                          commits |-> commits]))]

create_doc(g, initial_commit, other_owners) ==
    LET n == CommandIdNew(g)
        command_id == n.id
        event == BeginCommand(command_id,
                     [variant |-> "CreateDoc", initial_commit |-> initial_commit,
                      other_owners |-> other_owners])
    IN  [gen |-> n.gen, ret |-> Pair(command_id, event)]

load_doc(g, doc_id) ==
    LET n == CommandIdNew(g)
        command_id == n.id
        event == BeginCommand(command_id,
                     [variant |-> "LoadDoc", doc_id |-> doc_id, decrypt |-> TRUE])
    IN  [gen |-> n.gen, ret |-> Pair(command_id, event)]

\* load_doc_encrypted that asks for decryption like load_doc.
load_doc_encrypted_decrypts(g, doc_id) ==
    LET n == CommandIdNew(g)
        command_id == n.id
        event == BeginCommand(command_id,
                     [variant |-> "LoadDoc", doc_id |-> doc_id, decrypt |-> TRUE])
    IN  [gen |-> n.gen, ret |-> Pair(command_id, event)]

load_doc_encrypted(g, doc_id) ==
    LET n == CommandIdNew(g)
        command_id == n.id
        event == BeginCommand(command_id,
                     [variant |-> "LoadDoc", doc_id |-> doc_id, decrypt |-> FALSE])
    IN  [gen |-> n.gen, ret |-> Pair(command_id, event)]

add_bundle(g, doc, bundle) ==
    LET n == CommandIdNew(g)
        command_id == n.id
        event == BeginCommand(command_id,
                     [variant |-> "AddBundle", doc_id |-> doc, bundle |-> bundle])
    IN  [gen |-> n.gen, ret |-> Pair(command_id, event)]

create_stream(g, direction) ==
    LET n == CommandIdNew(g)
        command_id == n.id
        event == BeginCommand(command_id,
                     [variant |-> "CreateStream", f0 |-> direction])
    IN  [gen |-> n.gen, ret |-> Pair(command_id, event)]

disconnect_stream(g, stream_id) ==
    LET n == CommandIdNew(g)
        command_id == n.id
        event == BeginCommand(command_id,
                     [variant |-> "DisconnectStream", stream_id |-> stream_id])
    IN  [gen |-> n.gen, ret |-> Pair(command_id, event)]

\* handle_message that loses the bytes.
handle_message_drops_bytes(g, stream_id, message) ==
    [gen |-> g, ret |-> Bare(StreamMessage(stream_id, <<>>))]

handle_message(g, stream_id, message) ==
    [gen |-> g, ret |-> Bare(StreamMessage(stream_id, message))]

\* register_endpoint whose audience depends on what was minted before.
register_endpoint_first_default(g, audience) ==
    LET n == CommandIdNew(g)
        command_id == n.id
        event == BeginCommand(command_id,
                     [variant |-> "RegisterEndpoint",
                      f0 |-> IF g = 0 THEN "aud1" ELSE audience])
    IN  [gen |-> n.gen, ret |-> Pair(command_id, event)]

register_endpoint(g, audience) ==
    LET n == CommandIdNew(g)
        command_id == n.id
        event == BeginCommand(command_id,
                     [variant |-> "RegisterEndpoint", f0 |-> audience])
    IN  [gen |-> n.gen, ret |-> Pair(command_id, event)]

unregister_endpoint(g, endpoint_id) ==
    LET n == CommandIdNew(g)
        command_id == n.id
        event == BeginCommand(command_id,
                     [variant |-> "UnregisterEndpoints", f0 |-> endpoint_id])
    IN  [gen |-> n.gen, ret |-> Pair(command_id, event)]

\* stop that takes the next id and leaves the generator where it was.
stop_forgets_to_advance(g) ==
    LET n == CommandIdNew(g)
        command_id == n.id
    IN  [gen |-> g,
         ret |-> Bare(BeginCommand(command_id, [variant |-> "Stop"]))]

stop(g) ==
    LET n == CommandIdNew(g)
        command_id == n.id
    IN  [gen |-> n.gen,
         ret |-> Bare(BeginCommand(command_id, [variant |-> "Stop"]))]

add_member_to_doc(g, doc_id, member, access) ==
    LET n == CommandIdNew(g)
        command_id == n.id
        event == BeginCommand(command_id,
                     Keyhive([variant |-> "AddMemberToDoc", f0 |-> doc_id,
                              f1 |-> member, f2 |-> access]))
    IN  [gen |-> n.gen, ret |-> Pair(command_id, event)]

remove_member_from_doc(g, doc_id, member) ==
    LET n == CommandIdNew(g)
        command_id == n.id
        event == BeginCommand(command_id,
                     Keyhive([variant |-> "RemoveMemberFromDoc", f0 |-> doc_id,
                              f1 |-> member]))
    IN  [gen |-> n.gen, ret |-> Pair(command_id, event)]

query_access(g, doc_id) ==
    LET n == CommandIdNew(g)
        command_id == n.id
        event == BeginCommand(command_id,
                     Keyhive([variant |-> "QueryAccess", f0 |-> doc_id]))
    IN  [gen |-> n.gen, ret |-> Pair(command_id, event)]

create_group(g, other_owners) ==
    LET n == CommandIdNew(g)
        command_id == n.id
        event == BeginCommand(command_id,
                     Keyhive([variant |-> "CreateGroup", f0 |-> other_owners]))
    IN  [gen |-> n.gen, ret |-> Pair(command_id, event)]

add_member_to_group(g, add) ==
    LET n == CommandIdNew(g)
        command_id == n.id
        event == BeginCommand(command_id,
                     Keyhive([variant |-> "AddMemberToGroup", f0 |-> add]))
    IN  [gen |-> n.gen, ret |-> Pair(command_id, event)]

remove_member_from_group(g, remove) ==
    LET n == CommandIdNew(g)
        command_id == n.id
        event == BeginCommand(command_id,
                     Keyhive([variant |-> "RemoveMemberFromGroup", f0 |-> remove]))
    IN  [gen |-> n.gen, ret |-> Pair(command_id, event)]

\* query_status that reads the last id instead of minting one.
query_status_reads_last(g, doc_id) ==
    LET command_id == g
        event == BeginCommand(command_id,
                     [variant |-> "QueryStatus", f0 |-> doc_id])
    IN  [gen |-> g, ret |-> Pair(command_id, event)]

query_status(g, doc_id) ==
    LET n == CommandIdNew(g)
        command_id == n.id
        event == BeginCommand(command_id,
                     [variant |-> "QueryStatus", f0 |-> doc_id])
    IN  [gen |-> n.gen, ret |-> Pair(command_id, event)]

\* Compiled only with the debug_events feature.
log_keyhive_events(g, nicknames) ==
    LET n == CommandIdNew(g)
        command_id == n.id
        event == BeginCommand(command_id,
                     Keyhive([variant |-> "DebugEvents", f0 |-> nicknames]))
    IN  [gen |-> n.gen, ret |-> Pair(command_id, event)]

\* create_contact_card that mints an id and throws it away before minting its own.
create_contact_card_mints_twice(g) ==
    LET n == CommandIdNew(CommandIdNew(g).gen)
        command_id == n.id
        event == BeginCommand(command_id,
                     Keyhive([variant |-> "CreateContactCard"]))
    IN  [gen |-> n.gen, ret |-> Pair(command_id, event)]

create_contact_card(g) ==
    LET n == CommandIdNew(g)
        command_id == n.id
        event == BeginCommand(command_id,
                     Keyhive([variant |-> "CreateContactCard"]))
    IN  [gen |-> n.gen, ret |-> Pair(command_id, event)]

\* tick that mints an id it has no use for.
tick_mints(g) ==
    [gen |-> CommandIdNew(g).gen, ret |-> Bare(Tick)]

tick(g) ==
    [gen |-> g, ret |-> Bare(Tick)]

\* ------------------------------------------------------------------- state
VARIABLES
    debug_events,      \* the build has the debug_events feature
    last_command_id,   \* the generator behind CommandId::new
    frame,             \* per caller: the call in flight and what it returns
    submitted,         \* bag of the CommandIds of the BeginCommand events handed out
    held,              \* the CommandIds handed to a caller beside an event
    stop_ids           \* the CommandIds of the Stop events handed out

vars == <<debug_events, last_command_id, frame, submitted, held, stop_ids>>

Idle == [ctor |-> "idle"]
InFlight(c) == frame[c].ctor # "idle"

Init ==
    /\ debug_events \in BOOLEAN
    /\ last_command_id = 0
    /\ frame = [c \in Callers |-> Idle]
    /\ submitted = EmptyBag
    /\ held = {}
    /\ stop_ids = {}

\* Caller c calls constructor ctor with args; res is what the constructor yields.
Call(c, ctor, args, res) ==
    /\ ~InFlight(c)
    /\ res.gen <= MaxMints
    /\ last_command_id' = res.gen
    /\ frame' = [frame EXCEPT ![c] =
                    [ctor |-> ctor, args |-> args,
                     minted |-> res.gen - last_command_id, ret |-> res.ret]]
    /\ UNCHANGED <<debug_events, submitted, held, stop_ids>>

CallIoComplete(c) ==
    \E result \in IoResults :
        Call(c, "io_complete", <<result>>, io_complete(last_command_id, result))

CallHandleRequest(c) ==
    \E request \in SignedMessages, receive_audience \in OptionStrings :
        Call(c, "handle_request", <<request, receive_audience>>,
             handle_request(last_command_id, request, receive_audience))

CallHandleResponse(c) ==
    \E request_id \in OutboundRequestIds, response \in EndpointResponses :
        Call(c, "handle_response", <<request_id, response>>,
             handle_response(last_command_id, request_id, response))

CallAddCommits(c) ==
    \E root_id \in DocumentIds, commits \in Vecs(Commits) :
        Call(c, "add_commits", <<root_id, commits>>,
             add_commits(last_command_id, root_id, commits))

CallCreateDoc(c) ==
    \E initial_commit \in Commits, other_owners \in Vecs(KeyhiveEntityIds) :
        Call(c, "create_doc", <<initial_commit, other_owners>>,
             create_doc(last_command_id, initial_commit, other_owners))

CallLoadDoc(c) ==
    \E doc_id \in DocumentIds :
        Call(c, "load_doc", <<doc_id>>, load_doc(last_command_id, doc_id))

CallLoadDocEncrypted(c) ==
    \E doc_id \in DocumentIds :
        Call(c, "load_doc_encrypted", <<doc_id>>,
             load_doc_encrypted(last_command_id, doc_id))

CallAddBundle(c) ==
    \E doc \in DocumentIds, bundle \in CommitBundles :
        Call(c, "add_bundle", <<doc, bundle>>,
             add_bundle(last_command_id, doc, bundle))

CallCreateStream(c) ==
    \E direction \in StreamDirections :
        Call(c, "create_stream", <<direction>>,
             create_stream(last_command_id, direction))

CallDisconnectStream(c) ==
    \E stream_id \in StreamIds :
        Call(c, "disconnect_stream", <<stream_id>>,
             disconnect_stream(last_command_id, stream_id))

CallHandleMessage(c) ==
    \E stream_id \in StreamIds, message \in Vecs(Bytes) :
        Call(c, "handle_message", <<stream_id, message>>,
             handle_message(last_command_id, stream_id, message))

CallRegisterEndpoint(c) ==
    \E audience \in Audiences :
        Call(c, "register_endpoint", <<audience>>,
             register_endpoint(last_command_id, audience))

CallUnregisterEndpoint(c) ==
    \E endpoint_id \in EndpointIds :
        Call(c, "unregister_endpoint", <<endpoint_id>>,
             unregister_endpoint(last_command_id, endpoint_id))

CallStop(c) ==
    Call(c, "stop", <<>>, stop(last_command_id))

CallAddMemberToDoc(c) ==
    \E doc_id \in DocumentIds, member \in KeyhiveEntityIds, access \in MemberAccesses :
        Call(c, "add_member_to_doc", <<doc_id, member, access>>,
             add_member_to_doc(last_command_id, doc_id, member, access))

CallRemoveMemberFromDoc(c) ==
    \E doc_id \in DocumentIds, member \in KeyhiveEntityIds :
        Call(c, "remove_member_from_doc", <<doc_id, member>>,
             remove_member_from_doc(last_command_id, doc_id, member))

CallQueryAccess(c) ==
    \E doc_id \in DocumentIds :
        Call(c, "query_access", <<doc_id>>, query_access(last_command_id, doc_id))

CallCreateGroup(c) ==
    \E other_owners \in Vecs(KeyhiveEntityIds) :
        Call(c, "create_group", <<other_owners>>,
             create_group(last_command_id, other_owners))

CallAddMemberToGroup(c) ==
    \E add \in AddMemberToGroups :
        Call(c, "add_member_to_group", <<add>>,
             add_member_to_group(last_command_id, add))

CallRemoveMemberFromGroup(c) ==
    \E remove \in RemoveMemberFromGroups :
        Call(c, "remove_member_from_group", <<remove>>,
             remove_member_from_group(last_command_id, remove))

CallQueryStatus(c) ==
    \E doc_id \in DocumentIds :
        Call(c, "query_status", <<doc_id>>, query_status(last_command_id, doc_id))

CallLogKeyhiveEvents(c) ==
    /\ debug_events
    /\ \E nicknames \in Nicknames :
        Call(c, "log_keyhive_events", <<nicknames>>,
             log_keyhive_events(last_command_id, nicknames))

CallCreateContactCard(c) ==
    Call(c, "create_contact_card", <<>>, create_contact_card(last_command_id))

CallTick(c) ==
    Call(c, "tick", <<>>, tick(last_command_id))

\* The caller takes the value its call returns.
Return(c) ==
    LET ret == frame[c].ret
        event == ret.event
        begins == event.tag = "BeginCommand"
    IN  /\ InFlight(c)
        /\ frame' = [frame EXCEPT ![c] = Idle]
        /\ submitted' = IF begins THEN submitted (+) SetToBag({event.command_id})
                        ELSE submitted
        /\ held' = IF "command_id" \in DOMAIN ret THEN held \cup {ret.command_id}
                   ELSE held
        /\ stop_ids' = IF begins /\ event.command.variant = "Stop"
                       THEN stop_ids \cup {event.command_id} ELSE stop_ids
        /\ UNCHANGED <<debug_events, last_command_id>>

Next ==
    \E c \in Callers :
        \/ CallIoComplete(c)
        \/ CallHandleRequest(c)
        \/ CallHandleResponse(c)
        \/ CallAddCommits(c)
        \/ CallCreateDoc(c)
        \/ CallLoadDoc(c)
        \/ CallLoadDocEncrypted(c)
        \/ CallAddBundle(c)
        \/ CallCreateStream(c)
        \/ CallDisconnectStream(c)
        \/ CallHandleMessage(c)
        \/ CallRegisterEndpoint(c)
        \/ CallUnregisterEndpoint(c)
        \/ CallStop(c)
        \/ CallAddMemberToDoc(c)
        \/ CallRemoveMemberFromDoc(c)
        \/ CallQueryAccess(c)
        \/ CallCreateGroup(c)
        \/ CallAddMemberToGroup(c)
        \/ CallRemoveMemberFromGroup(c)
        \/ CallQueryStatus(c)
        \/ CallLogKeyhiveEvents(c)
        \/ CallCreateContactCard(c)
        \/ CallTick(c)
        \/ Return(c)

Spec == Init /\ [][Next]_vars

\* ------------------------------------------------------------------ claims
Event(c) == frame[c].ret.event
Begins(c) == InFlight(c) /\ Event(c).tag = "BeginCommand"
ReturnsPair(c) == "command_id" \in DOMAIN frame[c].ret

\* The constructors declared to return (CommandId, Event), without the
\* feature-gated one.
PairCtors ==
    {"handle_request", "handle_response", "add_commits", "create_doc", "load_doc",
     "load_doc_encrypted", "add_bundle", "create_stream", "disconnect_stream",
     "register_endpoint", "unregister_endpoint", "add_member_to_doc",
     "remove_member_from_doc", "query_access", "create_group",
     "add_member_to_group", "remove_member_from_group", "query_status",
     "create_contact_card"}

NonMintingCtors == {"io_complete", "handle_message", "tick"}

\* C1 (correlation integrity): whatever a constructor returning a
\* (CommandId, Event) pair is given, the event of the pair is a BeginCommand and
\* the CommandId inside it is the CommandId of the pair.
CorrelationIntegrity ==
    \A c \in Callers :
        (InFlight(c) /\ frame[c].ctor \in PairCtors) =>
            /\ ReturnsPair(c)
            /\ Event(c).tag = "BeginCommand"
            /\ Event(c).command_id = frame[c].ret.command_id

\* A pair is returned by a call that was not the first to mint.
CorrelationWitness ==
    \E c \in Callers :
        /\ InFlight(c)
        /\ frame[c].ctor = "handle_request"
        /\ ReturnsPair(c)
        /\ frame[c].ret.command_id = 2

\* How many BeginCommand events, handed out or in flight, carry id.
EmbeddedCount(id) ==
    CopiesIn(id, submitted)
        + Cardinality({c \in Callers : Begins(c) /\ Event(c).command_id = id})

EmbeddedIds ==
    BagToSet(submitted) \cup {Event(c).command_id : c \in {d \in Callers : Begins(d)}}

\* C2 (CommandId uniqueness): under every interleaving of the callers' calls, no
\* CommandId is inside more than one BeginCommand event produced so far.
CommandIdUniqueness ==
    \A id \in EmbeddedIds : EmbeddedCount(id) = 1

\* Both callers have a BeginCommand in flight after an earlier one was handed out.
UniquenessWitness ==
    /\ \A c \in Callers : Begins(c)
    /\ submitted # EmptyBag

\* C3 as stated: every constructor whose event is a BeginCommand mints one
\* CommandId and returns it beside the event, so every CommandId handed out in an
\* event is held by a caller.
EverySubmitterReturnsItsId ==
    /\ \A c \in Callers :
            Begins(c) =>
                /\ frame[c].minted = 1
                /\ ReturnsPair(c)
                /\ frame[c].ret.command_id = Event(c).command_id
    /\ BagToSet(submitted) \subseteq held

\* C3 (amended): every constructor whose event is a BeginCommand mints one
\* CommandId per call; every one of them but stop returns that CommandId beside
\* the event, stop returns the event alone, so the callers hold the CommandId of
\* every command handed out except those of the Stop commands.
SubmitterMintsOnceAndAllButStopReturnId ==
    /\ \A c \in Callers :
            Begins(c) =>
                /\ frame[c].minted = 1
                /\ IF frame[c].ctor = "stop"
                   THEN ~ReturnsPair(c)
                   ELSE /\ ReturnsPair(c)
                        /\ frame[c].ret.command_id = Event(c).command_id
    /\ BagToSet(submitted) \ stop_ids \subseteq held

\* A stop and another submitting call in flight, after a command was handed out.
SubmitterWitness ==
    /\ \E c \in Callers : InFlight(c) /\ frame[c].ctor = "stop"
    /\ \E c \in Callers : InFlight(c) /\ frame[c].ctor = "create_contact_card"
    /\ held # {}

\* C4 (no mint): a call of io_complete, handle_message or tick leaves the
\* generator as it was, so the next CommandId is the one that would have been
\* minted without the call, and neither the value returned nor its event carries
\* a CommandId.
NonMintingLeaveGenerator ==
    [][\A c \in Callers :
          (~InFlight(c) /\ InFlight(c)' /\ frame'[c].ctor \in NonMintingCtors) =>
              /\ last_command_id' = last_command_id
              /\ CommandIdNew(last_command_id').id = CommandIdNew(last_command_id).id
              /\ "command_id" \notin DOMAIN frame'[c].ret
              /\ "command_id" \notin DOMAIN frame'[c].ret.event]_vars

\* A tick in flight between two mints.
NonMintingWitness ==
    \E c \in Callers :
        /\ InFlight(c)
        /\ frame[c].ctor = "tick"
        /\ last_command_id = 1
        /\ submitted # EmptyBag

\* C5 (tag exhaustiveness): every event is one of the four cases; io_complete
\* gives IoComplete with its result, handle_message gives StreamMessage with its
\* StreamId and bytes, tick gives Tick, every other constructor BeginCommand.
TagExhaustiveness ==
    \A c \in Callers :
        InFlight(c) =>
            /\ Event(c).tag \in {"IoComplete", "BeginCommand", "StreamMessage", "Tick"}
            /\ CASE frame[c].ctor = "io_complete" ->
                        Event(c) = [tag |-> "IoComplete", result |-> frame[c].args[1]]
                 [] frame[c].ctor = "handle_message" ->
                        Event(c) = [tag |-> "StreamMessage",
                                    stream_id |-> frame[c].args[1],
                                    message |-> frame[c].args[2]]
                 [] frame[c].ctor = "tick" -> Event(c) = [tag |-> "Tick"]
                 [] OTHER -> Event(c).tag = "BeginCommand"

\* A stream message of two different bytes beside a command.
TagWitness ==
    /\ \E c \in Callers :
            /\ InFlight(c)
            /\ frame[c].ctor = "handle_message"
            /\ frame[c].args[2] = <<1, 0>>
    /\ \E c \in Callers : Begins(c)

\* C6 (load constructors): load_doc(d) builds LoadDoc of d with decrypt true,
\* load_doc_encrypted(d) builds LoadDoc of d with decrypt false, and the two
\* commands differ in the decrypt flag alone.
LoadPayloadFidelity ==
    /\ \A c \in Callers :
            InFlight(c) =>
                /\ frame[c].ctor = "load_doc" =>
                        Event(c).command =
                            [variant |-> "LoadDoc", doc_id |-> frame[c].args[1],
                             decrypt |-> TRUE]
                /\ frame[c].ctor = "load_doc_encrypted" =>
                        Event(c).command =
                            [variant |-> "LoadDoc", doc_id |-> frame[c].args[1],
                             decrypt |-> FALSE]
    /\ \A c1, c2 \in Callers :
            ( /\ InFlight(c1) /\ frame[c1].ctor = "load_doc"
              /\ InFlight(c2) /\ frame[c2].ctor = "load_doc_encrypted"
              /\ frame[c1].args = frame[c2].args ) =>
                /\ DOMAIN Event(c1).command = DOMAIN Event(c2).command
                /\ \A f \in DOMAIN Event(c1).command \ {"decrypt"} :
                        Event(c1).command[f] = Event(c2).command[f]
                /\ Event(c1).command.decrypt # Event(c2).command.decrypt

\* Both load constructors in flight for the same document.
LoadWitness ==
    \E c1, c2 \in Callers :
        /\ InFlight(c1) /\ frame[c1].ctor = "load_doc"
        /\ InFlight(c2) /\ frame[c2].ctor = "load_doc_encrypted"
        /\ frame[c1].args = <<"d2">>
        /\ frame[c2].args = <<"d2">>

\* An event without the CommandId it may carry.
SansCommandId(event) ==
    IF event.tag = "BeginCommand"
    THEN [tag |-> event.tag, command |-> event.command]
    ELSE event

\* C7 (purity): two calls of one constructor with the same arguments, whatever
\* the generator states they start from, give events of the same case with the
\* same command and payload; only the minted CommandId differs.
Purity ==
    \A c1, c2 \in Callers :
        ( /\ InFlight(c1) /\ InFlight(c2)
          /\ frame[c1].ctor = frame[c2].ctor
          /\ frame[c1].args = frame[c2].args ) =>
            /\ SansCommandId(Event(c1)) = SansCommandId(Event(c2))
            /\ ReturnsPair(c1) <=> ReturnsPair(c2)

\* The same call in flight twice, started from different generator states.
PurityWitness ==
    /\ InFlight(1) /\ InFlight(2)
    /\ frame[1].ctor = "register_endpoint"
    /\ frame[2].ctor = "register_endpoint"
    /\ frame[1].args = frame[2].args
    /\ Event(1).command_id # Event(2).command_id

BareCtors == NonMintingCtors \cup {"stop"}

\* C8 (infallible): every call returns a value of the declared shape, an Event or
\* a CommandId with an Event, never an error, whatever its input: empty commit
\* lists, empty owner lists and an absent audience included.
ConstructionInfallible ==
    \A c \in Callers :
        InFlight(c) =>
            /\ "event" \in DOMAIN frame[c].ret
            /\ DOMAIN frame[c].ret \subseteq {"command_id", "event"}
            /\ ReturnsPair(c) <=> frame[c].ctor \notin BareCtors

\* add_commits of no commit beside handle_request with no audience.
InfallibleWitness ==
    \E c1, c2 \in Callers :
        /\ InFlight(c1) /\ frame[c1].ctor = "add_commits"
        /\ frame[c1].args[2] = <<>>
        /\ "event" \in DOMAIN frame[c1].ret
        /\ InFlight(c2) /\ frame[c2].ctor = "handle_request"
        /\ frame[c2].args[2] = None
        /\ "event" \in DOMAIN frame[c2].ret

\* The Command each constructor of the documented surface stands for.
ExpectedCommand(ctor, args) ==
    CASE ctor = "handle_request" ->
            [variant |-> "HandleRequest", request |-> args[1][1],
             receive_audience |-> args[2]]
      [] ctor = "handle_response" ->
            [variant |-> "HandleResponse", request_id |-> args[1],
             response |-> args[2][1]]
      [] ctor = "add_commits" ->
            [variant |-> "AddCommits", doc_id |-> args[1], commits |-> args[2]]
      [] ctor = "create_doc" ->
            [variant |-> "CreateDoc", initial_commit |-> args[1],
             other_owners |-> args[2]]
      [] ctor = "load_doc" ->
            [variant |-> "LoadDoc", doc_id |-> args[1], decrypt |-> TRUE]
      [] ctor = "load_doc_encrypted" ->
            [variant |-> "LoadDoc", doc_id |-> args[1], decrypt |-> FALSE]
      [] ctor = "add_bundle" ->
            [variant |-> "AddBundle", doc_id |-> args[1], bundle |-> args[2]]
      [] ctor = "create_stream" -> [variant |-> "CreateStream", f0 |-> args[1]]
      [] ctor = "disconnect_stream" ->
            [variant |-> "DisconnectStream", stream_id |-> args[1]]
      [] ctor = "register_endpoint" -> [variant |-> "RegisterEndpoint", f0 |-> args[1]]
      [] ctor = "unregister_endpoint" ->
            [variant |-> "UnregisterEndpoints", f0 |-> args[1]]
      [] ctor = "stop" -> [variant |-> "Stop"]
      [] ctor = "add_member_to_doc" ->
            [variant |-> "Keyhive",
             sub |-> [variant |-> "AddMemberToDoc", f0 |-> args[1], f1 |-> args[2],
                      f2 |-> args[3]]]
      [] ctor = "remove_member_from_doc" ->
            [variant |-> "Keyhive",
             sub |-> [variant |-> "RemoveMemberFromDoc", f0 |-> args[1],
                      f1 |-> args[2]]]
      [] ctor = "query_access" ->
            [variant |-> "Keyhive", sub |-> [variant |-> "QueryAccess", f0 |-> args[1]]]
      [] ctor = "create_group" ->
            [variant |-> "Keyhive", sub |-> [variant |-> "CreateGroup", f0 |-> args[1]]]
      [] ctor = "add_member_to_group" ->
            [variant |-> "Keyhive",
             sub |-> [variant |-> "AddMemberToGroup", f0 |-> args[1]]]
      [] ctor = "remove_member_from_group" ->
            [variant |-> "Keyhive",
             sub |-> [variant |-> "RemoveMemberFromGroup", f0 |-> args[1]]]
      [] ctor = "query_status" -> [variant |-> "QueryStatus", f0 |-> args[1]]
      [] ctor = "create_contact_card" ->
            [variant |-> "Keyhive", sub |-> [variant |-> "CreateContactCard"]]
      [] ctor = "log_keyhive_events" ->
            [variant |-> "Keyhive", sub |-> [variant |-> "DebugEvents", f0 |-> args[1]]]

KeyhiveCtors ==
    {"add_member_to_doc", "remove_member_from_doc", "query_access", "create_group",
     "add_member_to_group", "remove_member_from_group", "create_contact_card"}

KeyhiveSubs ==
    {"AddMemberToDoc", "RemoveMemberFromDoc", "QueryAccess", "CreateGroup",
     "AddMemberToGroup", "RemoveMemberFromGroup", "CreateContactCard"}

\* The operation a command stands for: its variant, or its sub-command's.
Operation(command) ==
    IF command.variant = "Keyhive" THEN command.sub.variant ELSE command.variant

\* Each operation but LoadDoc comes from one constructor.
OneConstructorPerOperation ==
    \A c1, c2 \in Callers :
        ( /\ Begins(c1) /\ Begins(c2)
          /\ Operation(Event(c1).command) = Operation(Event(c2).command)
          /\ frame[c1].ctor # frame[c2].ctor ) =>
            Operation(Event(c1).command) = "LoadDoc"

\* C9 as stated: every submitting constructor builds the command of its
\* operation from its arguments unchanged, each operation but LoadDoc has one
\* constructor, and the command is a Keyhive one exactly when the constructor is
\* one of the seven access-control constructors, its sub-command one of their
\* seven.
ConstructorToCommandMapping ==
    /\ \A c \in Callers :
            Begins(c) =>
                /\ frame[c].ctor \in PairCtors \cup {"stop"} =>
                        Event(c).command = ExpectedCommand(frame[c].ctor, frame[c].args)
                /\ Event(c).command.variant = "Keyhive" <=> frame[c].ctor \in KeyhiveCtors
                /\ Event(c).command.variant = "Keyhive" =>
                        Event(c).command.sub.variant \in KeyhiveSubs
    /\ OneConstructorPerOperation

\* C9 (amended): as stated, but a build with the debug_events feature has an
\* eighth Keyhive constructor, log_keyhive_events, whose sub-command is
\* DebugEvents of its nicknames; a build without the feature has the seven.
ConstructorToCommandMappingWithDebug ==
    /\ \A c \in Callers :
            Begins(c) =>
                /\ Event(c).command = ExpectedCommand(frame[c].ctor, frame[c].args)
                /\ frame[c].ctor = "log_keyhive_events" => debug_events
                /\ Event(c).command.variant = "Keyhive" <=>
                        frame[c].ctor \in KeyhiveCtors \cup {"log_keyhive_events"}
                /\ Event(c).command.variant = "Keyhive" =>
                        /\ Event(c).command.sub.variant \in KeyhiveSubs \cup {"DebugEvents"}
                        /\ Event(c).command.sub.variant = "DebugEvents" <=>
                                frame[c].ctor = "log_keyhive_events"
    /\ OneConstructorPerOperation

\* Two commits in the order given, beside the debugging constructor.
MappingWitness ==
    \E c1, c2 \in Callers :
        /\ Begins(c1) /\ frame[c1].ctor = "add_commits"
        /\ frame[c1].args[2] = <<"c2", "c1">>
        /\ Begins(c2) /\ frame[c2].ctor = "log_keyhive_events"

\* C10 (stop): stop mints a CommandId, advancing the generator by one, puts it
\* in a BeginCommand around Command::Stop and returns the event alone; the
\* CommandId of a stop event is none of those a constructor has returned to a
\* caller or is about to.
StopKeepsItsId ==
    /\ \A c \in Callers :
            (InFlight(c) /\ frame[c].ctor = "stop") =>
                /\ frame[c].minted = 1
                /\ frame[c].ret = [event |-> [tag |-> "BeginCommand",
                                              command_id |-> Event(c).command_id,
                                              command |-> [variant |-> "Stop"]]]
                /\ Event(c).command_id \notin held
                /\ \A d \in Callers :
                        (InFlight(d) /\ ReturnsPair(d)) =>
                            frame[d].ret.command_id # Event(c).command_id
    /\ \A c \in Callers :
            (InFlight(c) /\ ReturnsPair(c)) => frame[c].ret.command_id \notin stop_ids
    /\ stop_ids \cap held = {}

\* A stop event handed out between two commands whose ids the callers hold.
StopWitness ==
    /\ stop_ids = {2}
    /\ 1 \in held
    /\ \E c \in Callers : InFlight(c) /\ ReturnsPair(c) /\ frame[c].ret.command_id = 3

====
